---- MODULE Spec2Model ----
(* A model of the document store of the block editor (the App component):   *)
(* pages, the current page, the theme, their localStorage copy, and the     *)
(* asynchronous AI search that appends to a page.                           *)
EXTENDS Integers, Sequences, FiniteSets, TLC

(* ------------------------------------------------------------------ *)
(* Bounds of the model.                                                 *)
(* ------------------------------------------------------------------ *)

\* Date.now() is at most MaxClock. The session starts at reading 2; readings
\* 0 and 1 belong to an earlier session, whose pages may be in localStorage.
MaxClock == 3

\* At most this many AI searches are in flight at once.
MaxSearches == 2

\* At most this many handler calls and reloads are made in one run.
MaxOps == 2

(* ------------------------------------------------------------------ *)
(* Strings are sequences of one-character strings.                      *)
(* ------------------------------------------------------------------ *)

Untitled == <<"U", "n", "t", "i", "t", "l", "e", "d">>

HelloMarkup ==
    <<"H", "e", "l", "l", "o", " ", "<", "b", ">", "W", "o", "r", "l", "d", "<", "/", "b", ">">>

HelloWorld == <<"H", "e", "l", "l", "o", " ", "W", "o", "r", "l", "d">>

\* The rest of a string after the tail of a tag: [^>]* and then an optional ">".
RECURSIVE SkipTag(_)
SkipTag(s) ==
    IF s = <<>> THEN <<>>
    ELSE IF Head(s) = ">" THEN Tail(s)
    ELSE SkipTag(Tail(s))

\* content.replace(/<[^>]*>?/gm, '')
RECURSIVE StripTags(_)
StripTags(s) ==
    IF s = <<>> THEN <<>>
    ELSE IF Head(s) = "<" THEN StripTags(SkipTag(Tail(s)))
    ELSE <<Head(s)>> \o StripTags(Tail(s))

IsSpace(c) == c \in {" ", "\n", "\t"}

RECURSIVE TrimStart(_)
TrimStart(s) ==
    IF s = <<>> THEN <<>>
    ELSE IF IsSpace(Head(s)) THEN TrimStart(Tail(s))
    ELSE s

RECURSIVE TrimEnd(_)
TrimEnd(s) ==
    IF s = <<>> THEN <<>>
    ELSE IF IsSpace(s[Len(s)]) THEN TrimEnd(SubSeq(s, 1, Len(s) - 1))
    ELSE s

\* String.prototype.trim
Trim(s) == TrimEnd(TrimStart(s))

(* ------------------------------------------------------------------ *)
(* Blocks and pages.                                                    *)
(* ------------------------------------------------------------------ *)

\* BlockType values used by the store.
H1 == "h1"
H2 == "h2"
P == "p"
QUOTE == "quote"
AI_SEARCH_RESULT == "ai_search_result"

\* A ContentBlock without optional fields.
Block(id, type, content) == [id |-> id, type |-> type, content |-> content]

\* `page-${t}`
PageId(t) == <<"page", t>>

\* null, for currentPageId
NoPage == <<>>

\* blocks.find(b => b.type === BlockType.H1): the index of the first h1 block, 0 if none.
FindH1(blocks) ==
    IF \E i \in 1..Len(blocks) : blocks[i].type = H1
    THEN CHOOSE i \in 1..Len(blocks) :
            /\ blocks[i].type = H1
            /\ \A j \in 1..(i - 1) : blocks[j].type # H1
    ELSE 0

\* NewTitle with a fault: the tags are not stripped.
NewTitleUnstripped(newBlocks) ==
    LET i == FindH1(newBlocks)
        newTitle == IF i # 0 THEN Trim(newBlocks[i].content) ELSE Untitled
    IN IF newTitle = <<>> THEN Untitled ELSE newTitle

\* The title updateBlocksForCurrentPage computes from the new blocks.
NewTitle(newBlocks) ==
    LET i == FindH1(newBlocks)
        newTitle == IF i # 0 THEN Trim(StripTags(newBlocks[i].content)) ELSE Untitled
    IN IF newTitle = <<>> THEN Untitled ELSE newTitle

\* The title handleAddPage gives a page created from supplied blocks.
AddPageTitle(blocks) ==
    LET i == FindH1(blocks)
    IN IF i # 0 THEN blocks[i].content ELSE Untitled

\* The two default blocks of handleAddPage at clock reading t, with the ids
\* `${t}-1` and `${t}-2`. A handler call reads the clock once: its Date.now()
\* calls fall in the same millisecond.
DefaultBlocks(t) ==
    << Block(<<"", t, 1>>, H1, Untitled), Block(<<"", t, 2>>, P, <<>>) >>

(* pages is a JavaScript object: a sequence of pages in key insertion order,  *)
(* each key (page id) at most once.                                           *)

Keys(ps) == [i \in 1..Len(ps) |-> ps[i].id]

KeySet(ps) == {ps[i].id : i \in 1..Len(ps)}

Has(ps, id) == id \in KeySet(ps)

Get(ps, id) == ps[CHOOSE i \in 1..Len(ps) : ps[i].id = id]

\* Put with a fault: the other pages are dropped.
PutAlone(ps, id, page) == <<page>>

\* { ...prev, [id]: page }: an existing key keeps its place, a new key goes last.
Put(ps, id, page) ==
    IF Has(ps, id)
    THEN [i \in 1..Len(ps) |-> IF ps[i].id = id THEN page ELSE ps[i]]
    ELSE Append(ps, page)

\* const newPages = { ...prev }; delete newPages[id]
Del(ps, id) == SelectSeq(ps, LAMBDA pg : pg.id # id)

\* A new page of handleAddPage() at clock reading t.
NewPageDefault(t) ==
    [id |-> PageId(t), title |-> Untitled, blocks |-> DefaultBlocks(t)]

\* A new page of handleAddPage(blocks) at clock reading t.
NewPageFrom(blocks, t) ==
    [id |-> PageId(t), title |-> AddPageTitle(blocks), blocks |-> blocks]

(* ------------------------------------------------------------------ *)
(* Inputs: block sequences the editor or a template hands to the store. *)
(* ------------------------------------------------------------------ *)

EditorBlock(k, type, content) == Block(<<"e", k>>, type, content)

\* A heading with markup, then a paragraph.
BlocksMarkup == << EditorBlock(1, H1, HelloMarkup), EditorBlock(2, P, <<>>) >>

\* No heading-1 block.
BlocksNoH1 == << EditorBlock(1, P, <<"h", "i">>) >>

\* The first heading-1 block holds only markup and spaces (the last tag is not
\* closed); a second heading-1 block follows it.
BlocksBlankH1 ==
    << EditorBlock(1, H2, <<"h", "i">>),
       EditorBlock(2, H1, <<" ", "<", "i", ">", " ", "<", "b">>),
       EditorBlock(3, H1, <<"x">>) >>

BlockSeqs == { BlocksMarkup, BlocksNoH1, BlocksBlankH1 }

\* pageTemplates[0].blocks
TemplateBlocks ==
    << EditorBlock(1, H1, <<"W", "e", "l", "c", "o", "m", "e">>), EditorBlock(2, P, <<>>) >>

Prompts == { <<"q">>, <<"r">> }

\* What generateWithGoogleSearch resolves to.
SearchResults ==
    { [text |-> <<"Y">>, sources |-> << [uri |-> <<"u">>, title |-> <<"A">>] >>] }

PageIds == { PageId(t) : t \in 0..MaxClock }

Themes == {"light", "dark"}

(* ------------------------------------------------------------------ *)
(* localStorage: each key holds no value or one.                        *)
(* ------------------------------------------------------------------ *)

\* JSON.stringify(pages): the string that parses back to the pages (strings,
\* arrays and objects without undefined values).
Stringify(ps) == [json |-> "object", value |-> ps]

\* A stored string JSON.parse throws on.
Garbage == [json |-> "garbage", value |-> <<>>]

Throws(str) == str.json = "garbage"

\* JSON.parse(str), for a string it accepts.
Parse(str) == str.value

Only(set) == CHOOSE x \in set : TRUE

EmptyStore == [theme |-> {}, pages |-> {}, currentPageId |-> {}]

\* The pages an earlier session saved.
StoredPages ==
    << [id |-> PageId(0), title |-> HelloWorld,
        blocks |-> << EditorBlock(1, H1, HelloMarkup) >>],
       [id |-> PageId(1), title |-> Untitled,
        blocks |-> << EditorBlock(1, P, <<"h", "i">>) >>] >>

\* What localStorage may hold when the App is first constructed: nothing; the
\* pages of an earlier session with its current page (the first key, the
\* second key, or an id that is no key); an empty pages object; a pages entry
\* that does not parse.
InitStores ==
    { EmptyStore,
      [theme |-> {"dark"}, pages |-> {Stringify(StoredPages)},
       currentPageId |-> {PageId(0)}],
      [theme |-> {"dark"}, pages |-> {Stringify(StoredPages)},
       currentPageId |-> {PageId(1)}],
      [theme |-> {"light"}, pages |-> {Stringify(StoredPages)},
       currentPageId |-> {PageId(3)}],
      [theme |-> {"light"}, pages |-> {Stringify(<<>>)}, currentPageId |-> {}],
      [theme |-> {"blue"}, pages |-> {Garbage}, currentPageId |-> {}] }

\* SaveEffect with a fault: an empty pages object is written as it is.
SaveEffectWritesEmpty(st, snap) ==
    [theme |-> {snap.theme},
     pages |-> {Stringify(snap.pages)},
     currentPageId |-> IF snap.currentPageId # NoPage THEN {snap.currentPageId} ELSE {}]

\* The body of the save effect, run on the values of the render it belongs to.
SaveEffect(st, snap) ==
    [theme |-> {snap.theme},
     pages |-> IF Len(snap.pages) > 0 THEN {Stringify(snap.pages)} ELSE {},
     currentPageId |-> IF snap.currentPageId # NoPage THEN {snap.currentPageId} ELSE {}]

Snapshot(ps, cur, th) == [pages |-> ps, currentPageId |-> cur, theme |-> th]

(* ------------------------------------------------------------------ *)
(* State.                                                               *)
(* ------------------------------------------------------------------ *)

VARIABLES
    pages,          \* useState: the pages object
    currentPageId,  \* useState: the current page id, or NoPage
    theme,          \* useState: the theme
    storage,        \* localStorage
    effect,         \* the save effect scheduled by the last commit and not yet run
    mounted,        \* whether the mount effects have run
    loaded,         \* localStorage as the last load effect read it
    crashed,        \* whether an effect has thrown an error to React
    now,            \* Date.now()
    searches,       \* the handleAiSearch calls awaiting the search service
    outcome,        \* how the last handleAiSearch call to end ended, "none" after other steps
    ops             \* the number of handler calls and reloads made

vars ==
    <<pages, currentPageId, theme, storage, effect, mounted, loaded, crashed,
      now, searches, outcome, ops>>

Init ==
    /\ pages = <<>>
    /\ currentPageId = NoPage
    /\ theme = "light"
    /\ storage \in InitStores
    /\ effect = {}
    /\ mounted = FALSE
    /\ loaded = EmptyStore
    /\ crashed = FALSE
    /\ now = 2
    /\ searches = <<>>
    /\ outcome = "none"
    /\ ops = 0

\* localStorage after the pending save effect, if any, has run.
Flushed ==
    IF effect = {} THEN storage ELSE SaveEffect(storage, Only(effect))

\* Commit with a fault: the scheduled save effect keeps the values of the
\* render before this one.
CommitStale(ps, cur, th) ==
    /\ pages' = ps
    /\ currentPageId' = cur
    /\ theme' = th
    /\ storage' = Flushed
    /\ effect' = {Snapshot(pages, currentPageId, theme)}

\* A render that commits new state: React runs the pending effects of the
\* previous commit first, then schedules the save effect of this one.
Commit(ps, cur, th) ==
    /\ pages' = ps
    /\ currentPageId' = cur
    /\ theme' = th
    /\ storage' = Flushed
    /\ effect' = {Snapshot(ps, cur, th)}

\* The scheduled save effect runs.
RunSaveEffect ==
    /\ effect # {}
    /\ storage' = Flushed
    /\ effect' = {}
    /\ UNCHANGED <<pages, currentPageId, theme, mounted, loaded, crashed, now, searches, outcome, ops>>

\* The clock moves on.
Tick ==
    /\ now < MaxClock
    /\ now' = now + 1
    /\ UNCHANGED <<pages, currentPageId, theme, storage, effect, mounted, loaded, crashed, searches, outcome, ops>>

(* ------------------------------------------------------------------ *)
(* Mount: the load effect, then the save effect of the first render.    *)
(* ------------------------------------------------------------------ *)

\* The theme the load effect sets.
LoadedTheme(prefersDark) ==
    IF storage.theme # {} /\ Only(storage.theme) \in Themes
    THEN Only(storage.theme)
    ELSE IF prefersDark THEN "dark" ELSE "light"

\* LoadedPages with a fault: a pages entry that does not parse is not caught.
LoadedPagesUncaught ==
    IF storage.pages = {} THEN <<NewPageFrom(TemplateBlocks, now)>>
    ELSE Parse(Only(storage.pages))

\* The pages the load effect sets.
LoadedPages ==
    IF storage.pages = {} THEN <<NewPageFrom(TemplateBlocks, now)>>
    ELSE IF Throws(Only(storage.pages)) THEN <<NewPageDefault(now)>>
    ELSE Parse(Only(storage.pages))

\* LoadedCurrentPageId with a fault: the saved current page id is not read.
LoadedCurrentPageIdFirstKey ==
    IF storage.pages = {} \/ Throws(Only(storage.pages)) THEN PageId(now)
    ELSE LET parsedPages == Parse(Only(storage.pages))
         IN IF Len(parsedPages) > 0 THEN Keys(parsedPages)[1] ELSE NoPage

\* The current page id the load effect sets.
LoadedCurrentPageId ==
    IF storage.pages = {} \/ Throws(Only(storage.pages)) THEN PageId(now)
    ELSE LET parsedPages == Parse(Only(storage.pages))
         IN IF storage.currentPageId # {} /\ Has(parsedPages, Only(storage.currentPageId))
            THEN Only(storage.currentPageId)
            ELSE IF Len(parsedPages) > 0 THEN Keys(parsedPages)[1]
            ELSE NoPage

\* Both mount effects run on the first render's values (no pages, no current
\* page, theme light); the state the load effect set is committed after them.
Mount ==
    /\ ~mounted
    /\ ~crashed
    /\ \E prefersDark \in BOOLEAN :
         /\ pages' = LoadedPages
         /\ currentPageId' = LoadedCurrentPageId
         /\ theme' = LoadedTheme(prefersDark)
         /\ storage' = SaveEffect(storage, Snapshot(pages, currentPageId, theme))
         /\ effect' = {Snapshot(pages', currentPageId', theme')}
    /\ mounted' = TRUE
    /\ loaded' = storage
    /\ UNCHANGED <<crashed, now, searches, outcome, ops>>

\* The tab is reloaded, with the App mounted or unmounted by an error: a new
\* App over the same localStorage. The state of the old one, its scheduled
\* effect and its pending searches are gone.
Reload ==
    /\ mounted \/ crashed
    /\ ops < MaxOps
    /\ ops' = ops + 1
    /\ pages' = <<>>
    /\ currentPageId' = NoPage
    /\ theme' = "light"
    /\ effect' = {}
    /\ mounted' = FALSE
    /\ crashed' = FALSE
    /\ searches' = <<>>
    /\ outcome' = "none"
    /\ UNCHANGED <<storage, loaded, now>>

(* ------------------------------------------------------------------ *)
(* The store's handlers.                                                *)
(* ------------------------------------------------------------------ *)

\* pages after handleAddPage() at clock reading t.
AddDefaultPage(ps, t) == Put(ps, PageId(t), NewPageDefault(t))

\* handleAddPage(blocks?)
handleAddPage ==
    /\ mounted
    /\ ops < MaxOps
    /\ ops' = ops + 1
    /\ \/ Commit(AddDefaultPage(pages, now), PageId(now), theme)
       \/ \E blocks \in BlockSeqs :
            Commit(Put(pages, PageId(now), NewPageFrom(blocks, now)), PageId(now), theme)
    /\ outcome' = "none"
    /\ UNCHANGED <<mounted, loaded, crashed, now, searches>>

\* The ids handleDeletePage reads from the rendered pages.
RemainingPageIds(pageIdToDelete) ==
    SelectSeq(Keys(pages), LAMBDA id : id # pageIdToDelete)

\* pages after handleDeletePage(pageIdToDelete).
PagesAfterDelete(pageIdToDelete) ==
    IF currentPageId = pageIdToDelete /\ Len(RemainingPageIds(pageIdToDelete)) = 0
    THEN AddDefaultPage(Del(pages, pageIdToDelete), now)
    ELSE Del(pages, pageIdToDelete)

\* currentPageId after handleDeletePage(pageIdToDelete).
CurrentAfterDelete(pageIdToDelete) ==
    IF currentPageId = pageIdToDelete
    THEN IF Len(RemainingPageIds(pageIdToDelete)) > 0
         THEN RemainingPageIds(pageIdToDelete)[1]
         ELSE PageId(now)
    ELSE currentPageId

\* handleDeletePage(pageIdToDelete)
handleDeletePage(pageIdToDelete) ==
    /\ mounted
    /\ ops < MaxOps
    /\ ops' = ops + 1
    /\ Commit(PagesAfterDelete(pageIdToDelete), CurrentAfterDelete(pageIdToDelete), theme)
    /\ outcome' = "none"
    /\ UNCHANGED <<mounted, loaded, crashed, now, searches>>

\* currentPageId after handleSwitchPage(pageId).
SwitchTarget(pageId) == pageId

\* handleSwitchPage(pageId); setting the id it already has renders nothing.
handleSwitchPage(pageId) ==
    /\ mounted
    /\ ops < MaxOps
    /\ ops' = ops + 1
    /\ SwitchTarget(pageId) # currentPageId
    /\ Commit(pages, SwitchTarget(pageId), theme)
    /\ outcome' = "none"
    /\ UNCHANGED <<mounted, loaded, crashed, now, searches>>

\* The page updateBlocksForCurrentPage puts in place of currentPage.
UpdatedPage(currentPage, newBlocks) ==
    [currentPage EXCEPT !.blocks = newBlocks, !.title = NewTitle(newBlocks)]

\* updateBlocksForCurrentPage(newBlocks); it returns early when
\* currentPageId is null, and its updater returns prev, which renders nothing,
\* when currentPageId is no page.
updateBlocksForCurrentPage(newBlocks) ==
    /\ mounted
    /\ ops < MaxOps
    /\ ops' = ops + 1
    /\ IF currentPageId # NoPage /\ Has(pages, currentPageId)
       THEN Commit(Put(pages, currentPageId,
                       UpdatedPage(Get(pages, currentPageId), newBlocks)),
                   currentPageId, theme)
       ELSE UNCHANGED <<pages, currentPageId, theme, storage, effect>>
    /\ outcome' = "none"
    /\ UNCHANGED <<mounted, loaded, crashed, now, searches>>

\* setTheme(th), from the sidebar.
setTheme(th) ==
    /\ mounted
    /\ ops < MaxOps
    /\ ops' = ops + 1
    /\ th # theme
    /\ Commit(pages, currentPageId, th)
    /\ outcome' = "none"
    /\ UNCHANGED <<mounted, loaded, crashed, now, searches>>

(* ------------------------------------------------------------------ *)
(* handleAiSearch: the call, and what happens when the await ends.      *)
(* ------------------------------------------------------------------ *)

\* handleAiSearch(prompt) up to its await; with currentPageId null it returns
\* at once. A call keeps the currentPageId of the render it was made in; live
\* records whether that id was a page then.
handleAiSearch(prompt) ==
    /\ mounted
    /\ ops < MaxOps
    /\ ops' = ops + 1
    /\ IF currentPageId # NoPage
       THEN /\ Len(searches) < MaxSearches
            /\ searches' = Append(searches,
                                  [pageId |-> currentPageId, prompt |-> prompt,
                                   live |-> Has(pages, currentPageId)])
       ELSE UNCHANGED searches
    /\ outcome' = "none"
    /\ UNCHANGED <<pages, currentPageId, theme, storage, effect, mounted, loaded, crashed, now>>

\* AiBlocks with a fault: the result block comes first.
AiBlocksResultFirst(prompt, result, t) ==
    << [id |-> <<"search-result", t>>, type |-> AI_SEARCH_RESULT,
        content |-> result.text, sources |-> result.sources],
       Block(<<"search-prompt", t>>, QUOTE, <<">", " ">> \o prompt) >>

\* promptBlock and resultBlock, in the order they are appended.
AiBlocks(prompt, result, t) ==
    << Block(<<"search-prompt", t>>, QUOTE, <<">", " ">> \o prompt),
       [id |-> <<"search-result", t>>, type |-> AI_SEARCH_RESULT,
        content |-> result.text, sources |-> result.sources] >>

\* AppendedPage with a fault: only the prompt block is appended.
AppendedPromptOnly(currentPage, prompt, result, t) ==
    [currentPage EXCEPT !.blocks = Append(@, AiBlocks(prompt, result, t)[1])]

\* AppendedPage with a fault: the new pair takes the place of the pairs that
\* earlier searches appended.
AppendedPageOverPairs(currentPage, prompt, result, t) ==
    [currentPage EXCEPT
        !.blocks = SelectSeq(@, LAMBDA b : b.type \notin {QUOTE, AI_SEARCH_RESULT})
                      \o AiBlocks(prompt, result, t)]

\* The page the continuation puts in place of currentPage.
AppendedPage(currentPage, prompt, result, t) ==
    [currentPage EXCEPT !.blocks = @ \o AiBlocks(prompt, result, t)]

\* SearchTarget with a fault: the page that is current when the await ends.
SearchTargetAtEnd(search) == currentPageId

\* The page id the continuation of a call looks up.
SearchTarget(search) == search.pageId

\* searches without its i-th call.
Without(i) == [k \in 1..(Len(searches) - 1) |-> IF k < i THEN searches[k] ELSE searches[k + 1]]

\* The await of call i ends with a result: the rest of handleAiSearch.
AiSearchResolves(i, result) ==
    /\ searches' = Without(i)
    /\ LET target == SearchTarget(searches[i])
       IN IF Has(pages, target)
          THEN /\ Commit(Put(pages, target,
                             AppendedPage(Get(pages, target), searches[i].prompt,
                                          result, now)),
                         currentPageId, theme)
               /\ outcome' = "appended"
          ELSE /\ outcome' = IF searches[i].live THEN "lost" ELSE "ignored"
               /\ UNCHANGED <<pages, currentPageId, theme, storage, effect>>
    /\ UNCHANGED <<mounted, loaded, crashed, now, ops>>

\* The await of call i ends with a rejection, and so does handleAiSearch.
AiSearchRejects(i) ==
    /\ searches' = Without(i)
    /\ outcome' = "rejected"
    /\ UNCHANGED <<pages, currentPageId, theme, storage, effect, mounted, loaded, crashed, now, ops>>

(* ------------------------------------------------------------------ *)
(* The specification.                                                   *)
(* ------------------------------------------------------------------ *)

Next ==
    \/ Mount
    \/ RunSaveEffect
    \/ Tick
    \/ handleAddPage
    \/ \E pageIdToDelete \in PageIds : handleDeletePage(pageIdToDelete)
    \/ \E pageId \in PageIds : handleSwitchPage(pageId)
    \/ \E newBlocks \in BlockSeqs : updateBlocksForCurrentPage(newBlocks)
    \/ \E th \in Themes : setTheme(th)
    \/ \E prompt \in Prompts : handleAiSearch(prompt)
    \/ \E i \in 1..Len(searches), result \in SearchResults : AiSearchResolves(i, result)
    \/ \E i \in 1..Len(searches) : AiSearchRejects(i)

Spec == Init /\ [][Next]_vars

\* React runs every effect it has scheduled.
FairSpec == Spec /\ WF_vars(RunSaveEffect)

(* ------------------------------------------------------------------ *)
(* The same App in a tab that can be reloaded.                          *)
(* ------------------------------------------------------------------ *)

ReloadNext ==
    \/ Next
    \/ Reload

ReloadSpec == Init /\ [][ReloadNext]_vars

(* ------------------------------------------------------------------ *)
(* The same App, in a tab that can be reloaded, over a localStorage     *)
(* whose setItem can throw (quota exceeded).                            *)
(* ------------------------------------------------------------------ *)

\* The three entries the save effect writes, in the order it writes them.
Entries == {"theme", "pages", "currentPageId"}

\* Whether the save effect calls setItem for the entry: it removes the pages
\* entry when there are no pages and the current-page-id entry when there is
\* no current page, and removeItem does not throw.
CallsSetItem(snap, entry) ==
    CASE entry = "theme" -> TRUE
      [] entry = "pages" -> Len(snap.pages) > 0
      [] entry = "currentPageId" -> snap.currentPageId # NoPage

\* localStorage after the save effect ran on snap and its setItem for the
\* entry failing threw: the statements after the throwing one are skipped, up
\* to the end of the effect (theme) or of the try block (the other two).
SaveEffectFailing(st, snap, failing) ==
    CASE failing = "theme" -> st
      [] failing = "pages" -> [st EXCEPT !.theme = {snap.theme}]
      [] failing = "currentPageId" ->
           [st EXCEPT !.theme = {snap.theme},
                      !.pages = IF Len(snap.pages) > 0 THEN {Stringify(snap.pages)} ELSE {}]

\* Whether the error leaves the save effect: the theme is written before the
\* try block, the other two entries inside it.
Escapes(failing) == failing = "theme"

\* The scheduled save effect runs and one of its setItem calls throws. An
\* error that leaves the effect reaches React, which unmounts the App: no
\* handler can be called, and the setPages of a pending search does nothing.
RunSaveEffectFails(failing) ==
    /\ effect # {}
    /\ CallsSetItem(Only(effect), failing)
    /\ storage' = SaveEffectFailing(storage, Only(effect), failing)
    /\ effect' = {}
    /\ crashed' = Escapes(failing)
    /\ mounted' = ~Escapes(failing)
    /\ searches' = IF Escapes(failing) THEN <<>> ELSE searches
    /\ outcome' = "none"
    /\ UNCHANGED <<pages, currentPageId, theme, loaded, now, ops>>

FaultNext ==
    \/ Next
    \/ Reload
    \/ \E failing \in Entries : RunSaveEffectFails(failing)

FaultSpec == Init /\ [][FaultNext]_vars

(* ------------------------------------------------------------------ *)
(* Properties.                                                          *)
(* ------------------------------------------------------------------ *)

\* C1: after every createPage, deletePage and switchPage call, with any id
\* argument, currentPageId is empty or a key of pages.
CurrentPageResolves ==
    currentPageId = NoPage \/ Has(pages, currentPageId)

\* The page handleAddPage() creates: the default page of some clock reading.
IsDefaultPage(page) ==
    \E t \in 0..MaxClock : page = NewPageDefault(t)

\* C2: deleting the only page leaves exactly one page, a fresh default page,
\* with currentPageId on it; so no deletePage of a page leaves pages empty.
DeleteLastPageReseeds ==
    [][\A id \in PageIds :
         handleDeletePage(id) =>
            /\ (Len(pages) = 1 /\ pages[1].id = id) =>
                  /\ Len(pages') = 1
                  /\ IsDefaultPage(pages'[1])
                  /\ currentPageId' = pages'[1].id
            /\ Len(pages) > 0 => Len(pages') > 0]_vars

\* C3: every page's title is the derivation of its own blocks: the stripped
\* and trimmed content of the first heading-1 block, or Untitled.
TitlesDerived ==
    \A i \in 1..Len(pages) : pages[i].title = NewTitle(pages[i].blocks)

\* The title each block sequence of BlockSeqs is to get.
ExpectedTitle(newBlocks) ==
    CASE newBlocks = BlocksMarkup -> HelloWorld
      [] newBlocks = BlocksNoH1 -> Untitled
      [] newBlocks = BlocksBlankH1 -> Untitled

\* C4: replaceBlocks on an existing page sets its blocks to newBlocks and its
\* title to the stripped and trimmed content of the first heading-1 block of
\* newBlocks, or to Untitled ('Hello <b>World</b>' gives 'Hello World').
ReplaceBlocksSetsBlocksAndTitle ==
    [][\A newBlocks \in BlockSeqs :
         (updateBlocksForCurrentPage(newBlocks) /\ Has(pages, currentPageId)) =>
            /\ Has(pages', currentPageId)
            /\ Get(pages', currentPageId).id = currentPageId
            /\ Get(pages', currentPageId).blocks = newBlocks
            /\ Get(pages', currentPageId).title = ExpectedTitle(newBlocks)]_vars

\* A page holds the markup heading under the title 'Hello World'.
ReplacedWithMarkup ==
    \E k \in 1..Len(pages) :
       pages[k].blocks = BlocksMarkup /\ pages[k].title = HelloWorld

\* C5: a successful search merged into an existing page of N blocks leaves it
\* with N+2 blocks: the N old ones, a quote block '> ' + prompt, then an
\* ai-search-result block with the result text and citations; same title.
AiAppendAddsTwoBlocks ==
    [][\A i \in 1..Len(searches), result \in SearchResults :
         (AiSearchResolves(i, result) /\ Has(pages, searches[i].pageId)) =>
            LET old == Get(pages, searches[i].pageId)
                new == Get(pages', searches[i].pageId)
                n == Len(old.blocks)
            IN /\ Has(pages', searches[i].pageId)
               /\ Len(new.blocks) = n + 2
               /\ SubSeq(new.blocks, 1, n) = old.blocks
               /\ new.blocks[n + 1].type = QUOTE
               /\ new.blocks[n + 1].content = <<">", " ">> \o searches[i].prompt
               /\ new.blocks[n + 2].type = AI_SEARCH_RESULT
               /\ new.blocks[n + 2].content = result.text
               /\ new.blocks[n + 2].sources = result.sources
               /\ new.title = old.title]_vars

IsSearchPrompt(block) == block.id[1] = "search-prompt"

IsSearchResult(block) == block.id[1] = "search-result"

\* A search has just appended to a page that had blocks before.
AiAppended ==
    /\ outcome = "appended"
    /\ \E k \in 1..Len(pages) :
          LET blocks == pages[k].blocks
          IN /\ Len(blocks) >= 3
             /\ IsSearchPrompt(blocks[Len(blocks) - 1])
             /\ IsSearchResult(blocks[Len(blocks)])

\* In every page a search's prompt block is directly followed by a search's
\* result block, and a result block directly follows a prompt block.
SearchBlocksPaired ==
    \A k \in 1..Len(pages) :
       LET blocks == pages[k].blocks
       IN \A j \in 1..Len(blocks) :
             /\ IsSearchPrompt(blocks[j]) =>
                   j < Len(blocks) /\ IsSearchResult(blocks[j + 1])
             /\ IsSearchResult(blocks[j]) =>
                   j > 1 /\ IsSearchPrompt(blocks[j - 1])

\* C6: the two-block append is atomic: issuing a search changes nothing in the
\* store, a failed search is reported to the caller and leaves pages as they
\* were, and no state holds one block of a search's pair without the other.
AiAppendAtomic ==
    /\ []SearchBlocksPaired
    /\ [][/\ \A prompt \in Prompts :
               handleAiSearch(prompt) => UNCHANGED <<pages, currentPageId, theme>>
          /\ \A i \in 1..Len(searches) :
               AiSearchRejects(i) => pages' = pages /\ outcome' = "rejected"]_vars

\* A search has just failed.
AiRejected == mounted /\ outcome = "rejected" /\ Len(pages) > 0

SearchTargetsIssuePage ==
    [][\A i \in 1..Len(searches), result \in SearchResults :
         (AiSearchResolves(i, result) /\ Has(pages, searches[i].pageId)) =>
            /\ Len(pages') = Len(pages)
            /\ \A k \in 1..Len(pages) :
                  IF pages[k].id = searches[i].pageId
                  THEN /\ pages'[k].id = pages[k].id
                       /\ Len(pages'[k].blocks) = Len(pages[k].blocks) + 2
                       /\ SubSeq(pages'[k].blocks, 1, Len(pages[k].blocks)) = pages[k].blocks
                  ELSE pages'[k] = pages[k]]_vars

HasSearchBlocks(page) ==
    \E j \in 1..Len(page.blocks) :
       IsSearchPrompt(page.blocks[j]) \/ IsSearchResult(page.blocks[j])

\* A search has just appended to a page that is not the current one.
AppendedToOtherPage ==
    /\ outcome = "appended"
    /\ Has(pages, currentPageId)
    /\ ~HasSearchBlocks(Get(pages, currentPageId))
    /\ \E k \in 1..Len(pages) : HasSearchBlocks(pages[k])

\* localStorage holds what a save of the current state writes.
InSync == storage = SaveEffect(storage, Snapshot(pages, currentPageId, theme))

\* C9: every committed change is eventually followed by a save, and every
\* save writes the state that is current when it runs, so the durable entries
\* never hold a stale or mixed snapshot and end with the latest one.
SaveLatestWins ==
    /\ [][storage' # storage => storage' = SaveEffect(storage, Snapshot(pages, currentPageId, theme))]_vars
    /\ (effect # {}) ~> (effect = {} /\ InSync)

\* Two replaceBlocks calls were made on stored page-0 one after the other: the
\* result of the first is in localStorage, the save of the second is scheduled.
TwoRapidReplaces ==
    /\ ops = 2
    /\ effect # {}
    /\ Len(pages) = 2
    /\ pages[1].id = PageId(0)
    /\ pages[1].blocks = BlocksNoH1
    /\ storage.pages # {}
    /\ ~Throws(Only(storage.pages))
    /\ Len(Parse(Only(storage.pages))) = 2
    /\ Parse(Only(storage.pages))[1].blocks = BlocksMarkup
    /\ Parse(Only(storage.pages))[1].title = HelloWorld

\* C10: every createPage inserts a page under an id that was no key of pages,
\* keeps every page there was, grows pages by one and makes the new id
\* current, also when two calls fall in the same clock millisecond.
CreatePageAddsFreshPage ==
    [][handleAddPage =>
          /\ ~Has(pages, currentPageId')
          /\ Has(pages', currentPageId')
          /\ Len(pages') = Len(pages) + 1
          /\ SubSeq(pages', 1, Len(pages)) = pages]_vars

\* C11: deletePage with an id that is no key of pages leaves pages and
\* currentPageId as they were, in every reachable state.
DeleteAbsentIsNoop ==
    [][\A id \in PageIds :
         (handleDeletePage(id) /\ ~Has(pages, id)) =>
            UNCHANGED <<pages, currentPageId>>]_vars

\* C12: switchPage with an id that is no key of pages changes neither
\* currentPageId nor pages, and raises no error.
SwitchAbsentIsNoop ==
    [][\A id \in PageIds :
         (handleSwitchPage(id) /\ ~Has(pages, id)) =>
            /\ UNCHANGED <<pages, currentPageId>>
            /\ crashed' = FALSE]_vars

\* The blocks of a page that no search appended.
SeedBlocks(page) ==
    SelectSeq(page.blocks, LAMBDA b : ~IsSearchPrompt(b) /\ ~IsSearchResult(b))

\* C13: in every page made of a default seed and of search appends, no two
\* blocks have the same id, also when two searches on the page resolve in the
\* same clock millisecond.
BlockIdsUnique ==
    \A k \in 1..Len(pages) :
       (\E t \in 0..MaxClock : SeedBlocks(pages[k]) = DefaultBlocks(t)) =>
          \A i, j \in 1..Len(pages[k].blocks) :
             i # j => pages[k].blocks[i].id # pages[k].blocks[j].id

\* A step in which a render commits new state.
Commits ==
    \/ handleAddPage
    \/ \E id \in PageIds : handleDeletePage(id) \/ handleSwitchPage(id)
    \/ \E newBlocks \in BlockSeqs :
          updateBlocksForCurrentPage(newBlocks) /\ Has(pages, currentPageId)
    \/ \E th \in Themes : setTheme(th)
    \/ \E i \in 1..Len(searches), result \in SearchResults :
          AiSearchResolves(i, result) /\ Has(pages, searches[i].pageId)

\* A step in which the save effect runs on the snapshot snap: at mount on the
\* first render's values, later on the values of the render that scheduled it.
SaveRunsOn(snap) ==
    \/ Mount /\ snap = Snapshot(pages, currentPageId, theme)
    \/ effect = {snap} /\ (RunSaveEffect \/ Commits)

\* C14: a save that runs with no pages removes the durable pages entry, and
\* with no current page the durable current-page-id entry; a load that finds
\* no pages entry yields exactly one page, with the blocks of the first
\* template, and makes it current.
EmptySaveRemovesEntries ==
    [][/\ \A snap \in effect \cup {Snapshot(pages, currentPageId, theme)} :
            SaveRunsOn(snap) =>
               /\ Len(snap.pages) = 0 => storage'.pages = {}
               /\ snap.currentPageId = NoPage => storage'.currentPageId = {}
       /\ (Mount /\ storage.pages = {}) =>
            /\ Len(pages') = 1
            /\ pages'[1].id = PageId(now)
            /\ pages'[1].blocks = TemplateBlocks
            /\ currentPageId' = pages'[1].id]_vars

\* The load effect has run on entries that a save of no pages left behind.
LoadedAfterEmptySave ==
    /\ mounted
    /\ loaded.theme # {}
    /\ loaded.pages = {}
    /\ Len(pages) = 1
    /\ pages[1].blocks = TemplateBlocks
    /\ currentPageId = pages[1].id

\* C15: when the durable pages entry does not decode, the load raises no
\* error and leaves exactly one page, a default page, which is current; no
\* page comes from the corrupt entry.
CorruptLoadReseeds ==
    [][(Mount /\ storage.pages # {} /\ Throws(Only(storage.pages))) =>
          /\ Len(pages') = 1
          /\ pages'[1] = NewPageDefault(now)
          /\ currentPageId' = pages'[1].id
          /\ crashed' = FALSE]_vars

\* The load effect has run on a pages entry that does not decode.
LoadedCorrupt ==
    /\ mounted
    /\ loaded.pages = {Garbage}
    /\ ~crashed
    /\ Len(pages) = 1
    /\ IsDefaultPage(pages[1])
    /\ currentPageId = pages[1].id

\* C18: a load that decodes a non-empty pages mapping makes it the pages and
\* makes current the persisted current-page-id if it is a key of the mapping
\* and the first key otherwise, so currentPageId is a page after the load; a
\* load that finds no pages entry seeds exactly one page.
LoadHydrates ==
    [][Mount =>
          /\ (storage.pages # {} /\ ~Throws(Only(storage.pages))
                 /\ Len(Parse(Only(storage.pages))) > 0) =>
                LET decoded == Parse(Only(storage.pages))
                IN /\ pages' = decoded
                   /\ \A id \in storage.currentPageId :
                         Has(decoded, id) => currentPageId' = id
                   /\ (\A id \in storage.currentPageId : ~Has(decoded, id)) =>
                         currentPageId' = decoded[1].id
                   /\ Has(pages', currentPageId')
          /\ storage.pages = {} => Len(pages') = 1]_vars

\* The load effect has read a current-page-id that is no key of the stored
\* pages, and the first key is current.
LoadedStaleCurrent ==
    /\ mounted
    /\ loaded.pages = {Stringify(StoredPages)}
    /\ loaded.currentPageId = {PageId(3)}
    /\ ops = 0
    /\ pages = StoredPages
    /\ currentPageId = PageId(0)

\* C19: no save runs on the initial state at startup: when the durable
\* entries hold non-empty pages, a current-page-id and a theme, the mount
\* leaves the pages and current-page-id entries present and the theme entry
\* with its stored value.
MountKeepsEntries ==
    [][(/\ Mount
        /\ storage.theme # {}
        /\ storage.currentPageId # {}
        /\ storage.pages # {}
        /\ ~Throws(Only(storage.pages))
        /\ Len(Parse(Only(storage.pages))) > 0) =>
          /\ storage'.pages # {}
          /\ storage'.currentPageId # {}
          /\ storage'.theme = storage.theme]_vars

\* C16: a failing durable write of the save (theme, pages or current-page-id
\* entry) is caught inside the save: no error reaches the caller, and pages,
\* currentPageId and theme in memory are what they were.
SaveFailureCaught ==
    [][\A failing \in Entries :
         RunSaveEffectFails(failing) =>
            /\ crashed' = FALSE
            /\ UNCHANGED <<pages, currentPageId, theme>>]_vars

\* pages after a change that touches at most the page with the id target: the
\* same keys in the same order, and every other page as it was.
OnlyPageChanged(target) ==
    /\ Len(pages') = Len(pages)
    /\ \A k \in 1..Len(pages) :
          /\ pages'[k].id = pages[k].id
          /\ pages[k].id # target => pages'[k] = pages[k]

\* C17: replaceBlocks and the AI append change only the blocks and title of
\* their target page; every other page, currentPageId and theme stay as they
\* were, and with the target id absent from pages, or no current page, pages
\* stay as they were too.
ReplaceAndAppendFrame ==
    [][/\ \A newBlocks \in BlockSeqs :
            updateBlocksForCurrentPage(newBlocks) =>
               /\ UNCHANGED <<currentPageId, theme>>
               /\ IF Has(pages, currentPageId)
                  THEN OnlyPageChanged(currentPageId)
                  ELSE pages' = pages
       /\ \A i \in 1..Len(searches), result \in SearchResults :
            AiSearchResolves(i, result) =>
               /\ UNCHANGED <<currentPageId, theme>>
               /\ IF Has(pages, searches[i].pageId)
                  THEN OnlyPageChanged(searches[i].pageId)
                  ELSE pages' = pages
       /\ \A prompt \in Prompts :
            (handleAiSearch(prompt) /\ currentPageId = NoPage) =>
               UNCHANGED <<pages, currentPageId, theme, searches>>]_vars

\* replaceBlocks has changed the first of the two stored pages; the second
\* one, the current page id and the theme are as they were loaded.
ReplacedOneOfTwo ==
    /\ mounted
    /\ Len(pages) = 2
    /\ pages[1].id = PageId(0)
    /\ pages[1].blocks = BlocksBlankH1
    /\ pages[2] = StoredPages[2]
    /\ currentPageId = PageId(0)
    /\ theme = "dark"

\* The number of search result blocks in a block sequence.
Pairs(blocks) == Len(SelectSeq(blocks, IsSearchResult))

\* C20: with several searches in flight, resolving in any order, each
\* resolution on an existing page appends its own prompt block and directly
\* after it its own result block, at the end of the page: the pairs stand in
\* resolution order, none is split, the pairs appended before are kept, and
\* the other searches stay in flight.
ConcurrentAppendsKeepPairs ==
    [][\A i \in 1..Len(searches), result \in SearchResults :
         (AiSearchResolves(i, result) /\ Has(pages, searches[i].pageId)) =>
            LET old == Get(pages, searches[i].pageId).blocks
                new == Get(pages', searches[i].pageId).blocks
            IN /\ new = old \o AiBlocks(searches[i].prompt, result, now)
               /\ Pairs(new) = Pairs(old) + 1
               /\ new[Len(new) - 1].content = <<">", " ">> \o searches[i].prompt
               /\ new[Len(new)].content = result.text
               /\ Len(searches') = Len(searches) - 1
               /\ \A k \in 1..Len(searches) :
                     k # i => \E m \in 1..Len(searches') : searches'[m] = searches[k]]_vars

\* A search has just appended its pair to a page while a search with another
\* prompt, issued on the same page, is still in flight.
AppendedWhileOtherInFlight ==
    /\ outcome = "appended"
    /\ Len(searches) = 1
    /\ Has(pages, searches[1].pageId)
    /\ LET blocks == Get(pages, searches[1].pageId).blocks
       IN /\ Pairs(blocks) = 1
          /\ IsSearchResult(blocks[Len(blocks)])
          /\ blocks[Len(blocks) - 1].content # <<">", " ">> \o searches[1].prompt
====
